---- MODULE Spec2Model ----
(***************************************************************************)
(* The to-do list of src/app/components/TodoList.tsx (tasksReducer and the *)
(* TodoList component) and the persistence hook of                         *)
(* src/app/hooks/useLocalStorage.ts, as one state machine over a browser   *)
(* session: localStorage, the value held in memory, the input field, the   *)
(* filter, the console and the error (if any) that reached the user.       *)
(*                                                                         *)
(* A JavaScript string is a sequence of symbols; a symbol is one character *)
(* ("a", " ", the quote, the backslash, ...) or one of the words id, text, *)
(* completed, true, false, null, which stand for their letters.            *)
(***************************************************************************)
EXTENDS Integers, Sequences, FiniteSets, TLC

(***************************************************************************)
(* JavaScript values.                                                      *)
(***************************************************************************)
Undefined == [k |-> "undefined"]
Null == [k |-> "null"]
Bool(b) == [k |-> "boolean", b |-> b]
Num(n) == [k |-> "number", n |-> n]
Str(s) == [k |-> "string", s |-> s]
Arr(a) == [k |-> "array", a |-> a]
\* an object is the sequence of its own properties, in insertion order
Obj(p) == [k |-> "object", p |-> p]
Prop(key, v) == [key |-> key, v |-> v]
\* a function that returns result whatever it is called with: () => result
Func(result) == [k |-> "function", returns |-> result]

IsArray(v) == v.k = "array"
IsObject(v) == v.k = "object"

QUOTE == "\""
BACKSLASH == "\\"
Digits == <<"0", "1", "2", "3", "4", "5", "6", "7", "8", "9">>
IsDigit(c) == \E n \in 1..Len(Digits) : Digits[n] = c
DigitValue(c) == (CHOOSE n \in 1..Len(Digits) : Digits[n] = c) - 1

\* obj[key]: the value of an own property, undefined when there is none
HasProp(p, key) == \E n \in 1..Len(p) : p[n].key = key
GetProp(p, key) ==
  IF HasProp(p, key) THEN p[CHOOSE n \in 1..Len(p) : p[n].key = key].v ELSE Undefined

\* obj[key] = v: an existing property keeps its place, a new one goes last
SetProp(p, key, v) ==
  IF HasProp(p, key)
    THEN [n \in 1..Len(p) |-> IF p[n].key = key THEN Prop(key, v) ELSE p[n]]
    ELSE Append(p, Prop(key, v))

\* v.key as JavaScript evaluates it: a TypeError on null and undefined,
\* undefined on the other values that have no such own property
ThrowsOnMember(v) == v.k \in {"null", "undefined"}
Member(v, key) == IF IsObject(v) THEN GetProp(v.p, key) ELSE Undefined

\* ToBoolean
Truthy(v) ==
  CASE v.k = "undefined" -> FALSE
    [] v.k = "null" -> FALSE
    [] v.k = "boolean" -> v.b
    [] v.k = "number" -> v.n # 0
    [] v.k = "string" -> Len(v.s) > 0
    [] OTHER -> TRUE

\* a === b for the values compared here (primitives on at least one side)
StrictEquals(a, b) ==
  /\ a.k = b.k
  /\ a.k \in {"undefined", "null", "boolean", "number", "string"}
  /\ a = b

(***************************************************************************)
(* JSON.stringify                                                          *)
(***************************************************************************)
RECURSIVE QuoteChars(_)
QuoteChars(s) ==
  IF s = <<>> THEN <<>>
  ELSE (IF Head(s) \in {QUOTE, BACKSLASH} THEN <<BACKSLASH, Head(s)>> ELSE <<Head(s)>>)
       \o QuoteChars(Tail(s))

QuoteJSONString(s) == <<QUOTE>> \o QuoteChars(s) \o <<QUOTE>>

\* a property whose value is undefined is left out of an object
Serializable(v) == v.k \notin {"undefined", "function"}

RECURSIVE SerializeJSON(_)
RECURSIVE SerializeElements(_)
RECURSIVE SerializeProperties(_, _)

SerializeElements(a) ==
  IF a = <<>> THEN <<>>
  ELSE (IF Serializable(Head(a)) THEN SerializeJSON(Head(a)) ELSE <<"null">>)
       \o (IF Tail(a) = <<>> THEN <<>> ELSE <<",">> \o SerializeElements(Tail(a)))

SerializeProperties(p, first) ==
  IF p = <<>> THEN <<>>
  ELSE IF ~Serializable(Head(p).v) THEN SerializeProperties(Tail(p), first)
  ELSE (IF first THEN <<>> ELSE <<",">>)
       \o QuoteJSONString(Head(p).key) \o <<":">> \o SerializeJSON(Head(p).v)
       \o SerializeProperties(Tail(p), FALSE)

SerializeJSON(v) ==
  CASE v.k = "null" -> <<"null">>
    [] v.k = "boolean" -> IF v.b THEN <<"true">> ELSE <<"false">>
    [] v.k = "number" -> <<Digits[v.n + 1]>>
    [] v.k = "string" -> QuoteJSONString(v.s)
    [] v.k = "array" -> <<"[">> \o SerializeElements(v.a) \o <<"]">>
    [] v.k = "object" -> <<"{">> \o SerializeProperties(v.p, TRUE) \o <<"}">>

\* JSON.stringify(v), for a value that has a serialisation
JSONstringify(v) == SerializeJSON(v)

(***************************************************************************)
(* JSON.parse: a result is [ok, v, i]; ok = FALSE is a SyntaxError and i   *)
(* is the position after the value read.                                   *)
(***************************************************************************)
SyntaxError == [ok |-> FALSE, v |-> Undefined, i |-> 0]
Parsed(v, i) == [ok |-> TRUE, v |-> v, i |-> i]

RECURSIVE SkipWhitespace(_, _)
SkipWhitespace(s, i) ==
  IF i <= Len(s) /\ s[i] = " " THEN SkipWhitespace(s, i + 1) ELSE i

At(s, i, c) == i <= Len(s) /\ s[i] = c

\* the characters of a string literal, from the position after its opening quote
RECURSIVE ParseChars(_, _, _)
ParseChars(s, i, acc) ==
  IF i > Len(s) THEN SyntaxError
  ELSE IF s[i] = QUOTE THEN Parsed(Str(acc), i + 1)
  ELSE IF s[i] = BACKSLASH
    THEN IF i + 1 <= Len(s) /\ s[i + 1] \in {QUOTE, BACKSLASH}
           THEN ParseChars(s, i + 2, Append(acc, s[i + 1]))
           ELSE SyntaxError
  ELSE ParseChars(s, i + 1, Append(acc, s[i]))

RECURSIVE ParseValue(_, _)
RECURSIVE ParseElements(_, _, _)
RECURSIVE ParseMembers(_, _, _)

\* the elements of an array, from the position of the next element
ParseElements(s, i, acc) ==
  LET e == ParseValue(s, i) IN
  IF ~e.ok THEN SyntaxError
  ELSE IF At(s, e.i, ",") THEN ParseElements(s, e.i + 1, Append(acc, e.v))
  ELSE IF At(s, e.i, "]") THEN Parsed(Arr(Append(acc, e.v)), e.i + 1)
  ELSE SyntaxError

\* the members of an object, from the position of the next key
ParseMembers(s, i, acc) ==
  LET j == SkipWhitespace(s, i) IN
  IF ~At(s, j, QUOTE) THEN SyntaxError
  ELSE LET key == ParseChars(s, j + 1, <<>>) IN
    IF ~key.ok THEN SyntaxError
    ELSE LET c == SkipWhitespace(s, key.i) IN
      IF ~At(s, c, ":") THEN SyntaxError
      ELSE LET m == ParseValue(s, c + 1) IN
        IF ~m.ok THEN SyntaxError
        ELSE IF At(s, m.i, ",") THEN ParseMembers(s, m.i + 1, SetProp(acc, key.v.s, m.v))
        ELSE IF At(s, m.i, "}") THEN Parsed(Obj(SetProp(acc, key.v.s, m.v)), m.i + 1)
        ELSE SyntaxError

\* one value with the whitespace around it
ParseValue(s, i) ==
  LET j == SkipWhitespace(s, i)
      After(r) == IF r.ok THEN Parsed(r.v, SkipWhitespace(s, r.i)) ELSE SyntaxError
  IN
  IF j > Len(s) THEN SyntaxError
  ELSE IF s[j] = "null" THEN After(Parsed(Null, j + 1))
  ELSE IF s[j] = "true" THEN After(Parsed(Bool(TRUE), j + 1))
  ELSE IF s[j] = "false" THEN After(Parsed(Bool(FALSE), j + 1))
  ELSE IF IsDigit(s[j]) THEN After(Parsed(Num(DigitValue(s[j])), j + 1))
  ELSE IF s[j] = QUOTE THEN After(ParseChars(s, j + 1, <<>>))
  ELSE IF s[j] = "["
    THEN LET c == SkipWhitespace(s, j + 1) IN
         IF At(s, c, "]") THEN After(Parsed(Arr(<<>>), c + 1))
         ELSE After(ParseElements(s, j + 1, <<>>))
  ELSE IF s[j] = "{"
    THEN LET c == SkipWhitespace(s, j + 1) IN
         IF At(s, c, "}") THEN After(Parsed(Obj(<<>>), c + 1))
         ELSE After(ParseMembers(s, j + 1, <<>>))
  ELSE SyntaxError

\* JSON.parse(s): the value, or a SyntaxError when s is not one JSON text
JSONparse(s) ==
  LET r == ParseValue(s, 1) IN
  IF r.ok /\ r.i = Len(s) + 1 THEN r ELSE SyntaxError

(***************************************************************************)
(* Tasks and the reducer of TodoList.tsx                                   *)
(***************************************************************************)
ID == <<"id">>
TEXT == <<"text">>
COMPLETED == <<"completed">>

\* the object literal { id, text, completed } of the ADD case
Task(id, text, completed) ==
  Obj(<<Prop(ID, id), Prop(TEXT, text), Prop(COMPLETED, completed)>>)

\* { ...t }: the own properties of an object; a number, a boolean or null has none
Spread(t) == IF IsObject(t) THEN t.p ELSE <<>>

AddAction(text) == [type |-> "ADD", text |-> text]
ToggleAction(id) == [type |-> "TOGGLE", id |-> id]
DeleteAction(id) == [type |-> "DELETE", id |-> id]
ClearCompletedAction == [type |-> "CLEAR_COMPLETED"]

\* the reducer raises a TypeError when the state is not an array (it has no
\* map or filter and cannot be spread) or an element has no properties to read
ReducerThrows(state, action) ==
  \/ ~IsArray(state)
  \/ /\ action.type \in {"TOGGLE", "DELETE", "CLEAR_COMPLETED"}
     /\ \E n \in 1..Len(state.a) : ThrowsOnMember(state.a[n])

\* AddCase with the new task put first: [{ ... }, ...state]
AddCaseFirst(state, action, uuid) ==
  Arr(<<Task(Str(uuid), action.text, Bool(FALSE))>> \o state.a)

\* case "ADD"; uuid is what crypto.randomUUID() returns in this call
AddCase(state, action, uuid) ==
  Arr(Append(state.a, Task(Str(uuid), action.text, Bool(FALSE))))

\* ToggleCase that sets the flag instead of negating it: { ...t, completed: true }
ToggleCaseSetsTrue(state, action) ==
  Arr([n \in 1..Len(state.a) |->
        LET t == state.a[n] IN
        IF StrictEquals(Member(t, ID), action.id)
          THEN Obj(SetProp(Spread(t), COMPLETED, Bool(TRUE)))
          ELSE t])

\* ToggleCase without the test on the id: every task is negated
ToggleCaseIgnoresId(state, action) ==
  Arr([n \in 1..Len(state.a) |->
        LET t == state.a[n] IN
        Obj(SetProp(Spread(t), COMPLETED, Bool(~Truthy(Member(t, COMPLETED)))))])

\* case "TOGGLE"
ToggleCase(state, action) ==
  Arr([n \in 1..Len(state.a) |->
        LET t == state.a[n] IN
        IF StrictEquals(Member(t, ID), action.id)
          THEN Obj(SetProp(Spread(t), COMPLETED, Bool(~Truthy(Member(t, COMPLETED)))))
          ELSE t])

\* DeleteCase by moving the last task into the place of the first match:
\* state[n] = state[state.length - 1]; state.pop()
DeleteCaseSwapsLast(state, action) ==
  LET L == state.a
      Hits == {n \in 1..Len(L) : StrictEquals(Member(L[n], ID), action.id)}
  IN IF Hits = {} THEN state
     ELSE LET n == CHOOSE h \in Hits : \A g \in Hits : h <= g
          IN Arr(SubSeq([L EXCEPT ![n] = L[Len(L)]], 1, Len(L) - 1))

\* case "DELETE"
DeleteCase(state, action) ==
  Arr(SelectSeq(state.a, LAMBDA t : ~StrictEquals(Member(t, ID), action.id)))

\* ClearCompletedCase with the test inverted: filter((t) => t.completed)
ClearCompletedCaseKeepsDone(state) ==
  Arr(SelectSeq(state.a, LAMBDA t : Truthy(Member(t, COMPLETED))))

\* case "CLEAR_COMPLETED"
ClearCompletedCase(state) ==
  Arr(SelectSeq(state.a, LAMBDA t : ~Truthy(Member(t, COMPLETED))))

tasksReducer(state, action, uuid) ==
  CASE action.type = "ADD" -> AddCase(state, action, uuid)
    [] action.type = "TOGGLE" -> ToggleCase(state, action)
    [] action.type = "DELETE" -> DeleteCase(state, action)
    [] action.type = "CLEAR_COMPLETED" -> ClearCompletedCase(state)
    [] OTHER -> state

\* String.prototype.trim
RECURSIVE TrimStart(_)
TrimStart(s) == IF s # <<>> /\ Head(s) = " " THEN TrimStart(Tail(s)) ELSE s
RECURSIVE TrimEnd(_)
TrimEnd(s) ==
  IF s # <<>> /\ s[Len(s)] = " " THEN TrimEnd(SubSeq(s, 1, Len(s) - 1)) ELSE s
Trim(s) == TrimEnd(TrimStart(s))

\* filteredTasks and remainingCount of the render
\* filteredTasks with "active" giving every task: the switch without a case
\* for it
filteredTasksNoActive(ts, f) ==
  SelectSeq(ts.a, LAMBDA t :
    IF f = "completed" THEN Truthy(Member(t, COMPLETED)) ELSE TRUE)

\* the tasks on screen under a filter
filteredTasks(ts, f) ==
  SelectSeq(ts.a, LAMBDA t :
    IF f = "active" THEN ~Truthy(Member(t, COMPLETED))
    ELSE IF f = "completed" THEN Truthy(Member(t, COMPLETED))
    ELSE TRUE)

remainingCount(ts) == Len(SelectSeq(ts.a, LAMBDA t : ~Truthy(Member(t, COMPLETED))))

\* the render raises when tasks has no filter method, when a callback reads a
\* property of null, or when the text handed to React as a child is an object
RenderThrows(ts, f) ==
  \/ ~IsArray(ts)
  \/ \E n \in 1..Len(ts.a) : ThrowsOnMember(ts.a[n])
  \/ \E n \in 1..Len(filteredTasks(ts, f)) : IsObject(Member(filteredTasks(ts, f)[n], TEXT))

(***************************************************************************)
(* Bounds and inputs                                                       *)
(***************************************************************************)
\* how many identifiers crypto.randomUUID() can hand out in one run
MaxUUIDs == 2

UUID(n) == <<"u", Digits[n + 1]>>
UUIDs == {UUID(n) : n \in 1..MaxUUIDs}

\* what the user can type into the input field
Inputs == {<<>>, <<" ">>, <<" ", "a", QUOTE, " ">>}

Filters == {"all", "active", "completed"}

TaskX == Task(Str(<<"x">>), Str(<<"a">>), Bool(FALSE))
TaskY == Task(Str(<<"y">>), Str(<<"b", QUOTE>>), Bool(TRUE))
TaskXAgain == Task(Str(<<"x">>), Str(<<"c">>), Bool(TRUE))
TaskNoText == Task(Str(<<"v">>), Str(<<>>), Bool(FALSE))

\* strings that may be found under the key when a session starts
StoredItems ==
  { <<>>,
    <<"n", "o", "t", " ", "j", "s", "o", "n">>,
    <<"[", "{", QUOTE, "id", QUOTE, ":", QUOTE, "x", QUOTE>>,
    <<"null">>,
    <<"5">>,
    <<"{", QUOTE, "a", QUOTE, ":", "1", "}">>,
    <<"[", "null", "]">>,
    <<" ", "[", " ", "]">>,
    JSONstringify(Arr(<<TaskX>>)),
    JSONstringify(Arr(<<TaskX, TaskY>>)),
    JSONstringify(Arr(<<TaskX, TaskXAgain>>)),
    JSONstringify(Arr(<<TaskNoText>>)),
    <<"[", "{", QUOTE, "id", QUOTE, ":", QUOTE, "z", QUOTE, "}", "]">> }

OtherKey == "theme"
OtherItem == <<"d", "a", "r", "k">>

\* localStorage is a function from the keys that have an item to their strings
InitialStorages ==
  {[k \in {OtherKey} |-> OtherItem]}
    \cup {[k \in {OtherKey, "tasks"} |-> IF k = "tasks" THEN item ELSE OtherItem] :
            item \in StoredItems}

\* Storage.getItem and Storage.setItem
getItem(ls, key) == IF key \in DOMAIN ls THEN Str(ls[key]) ELSE Null
setItem(ls, key, item) == [k \in DOMAIN ls \cup {key} |-> IF k = key THEN item ELSE ls[k]]

Components == {"TodoList", "useLocalStorage"}

\* the arguments of the hook: useLocalStorage("tasks", [])
HookKey == "tasks"
HookInitialValue == Arr(<<>>)
\* what the owner of the hook hands to the setter: a value, or a function of the old value
TaskZ == Task(Str(<<"z">>), Str(<<"a">>), Bool(FALSE))
HookValues == {Arr(<<>>), Arr(<<TaskY, TaskZ>>)}
HookUpdaters == {"dropCompleted", "storeCallback"}
\* (old) => Array.isArray(old) ? old.filter((t) => !t?.completed) : []
\* "storeCallback" is () => () => [TaskZ]: the new value is itself a function
ApplyUpdater(u, val) ==
  IF u = "storeCallback" THEN Func(Arr(<<TaskZ>>))
  ELSE IF u = "dropCompleted" /\ IsArray(val)
    THEN Arr(SelectSeq(val.a, LAMBDA t : ~Truthy(Member(t, COMPLETED))))
    ELSE Arr(<<>>)

ReadError(key) == [level |-> "error", text |-> "Error reading localStorage key", key |-> key]
WriteError(key) == [level |-> "error", text |-> "Error setting localStorage key", key |-> key]

\* a call of tasksReducer: before it returns, and with what it returned
NoCall == [type |-> "none"]
Pending(state, action) == [type |-> "pending", state |-> state, action |-> action]
Returned(state, action, result) ==
  [type |-> "returned", state |-> state, action |-> action, result |-> result]

VARIABLES
  window,        \* TRUE in a browser, FALSE where window is undefined
  component,     \* what the page mounts
  phase,         \* "unmounted", "mounted", or "crashed" after an uncaught error
  localStorage,
  tasks,         \* the reducer state of TodoList
  newTaskText,
  filter,
  storedValue,   \* the state of useLocalStorage
  console,       \* the set of messages logged
  uncaught,      \* the error that reached the user, "none" when there is none
  issued,        \* the identifiers crypto.randomUUID() has returned
  lastWrite,     \* how the last localStorage.setItem ended: "none", "ok", "failed"
  call           \* a call of tasksReducer on its own: state, action, result

vars == <<window, component, phase, localStorage, tasks, newTaskText, filter,
          storedValue, console, uncaught, issued, lastWrite, call>>

Init ==
  /\ window \in BOOLEAN
  /\ component \in Components
  /\ phase = "unmounted"
  /\ localStorage \in InitialStorages
  /\ tasks = Undefined
  /\ newTaskText = <<>>
  /\ filter = "all"
  /\ storedValue = Undefined
  /\ console = {}
  /\ uncaught = "none"
  /\ issued = {}
  /\ lastWrite = "none"
  /\ call = NoCall

(***************************************************************************)
(* TodoList                                                                *)
(***************************************************************************)
\* LoadTasks reading another key than the one the effect writes
LoadTasksOtherKey(win, ls) ==
  IF win
    THEN LET raw == getItem(ls, "todos") IN
         IF Truthy(raw)
           THEN LET r == JSONparse(raw.s) IN IF r.ok THEN r.v ELSE Arr(<<>>)
           ELSE Arr(<<>>)
    ELSE Arr(<<>>)

\* the initialiser handed to useReducer
LoadTasks(win, ls) ==
  IF win
    THEN LET raw == getItem(ls, "tasks") IN
         IF Truthy(raw)
           THEN LET r == JSONparse(raw.s) IN IF r.ok THEN r.v ELSE Arr(<<>>)
           ELSE Arr(<<>>)
    ELSE Arr(<<>>)

\* an error nothing catches: React removes the whole tree, and the state of the
\* component goes with it
Crash(error) ==
  /\ phase' = "crashed"
  /\ uncaught' = error
  /\ lastWrite' = IF error = "QuotaExceededError" THEN "failed" ELSE "none"
  /\ tasks' = Undefined
  /\ newTaskText' = <<>>
  /\ filter' = "all"
  /\ UNCHANGED localStorage

\* the component has rendered and shows this state
Rendered(next, text, f) ==
  /\ tasks' = next
  /\ newTaskText' = text
  /\ filter' = f
  /\ phase' = "mounted"
  /\ uncaught' = "none"

\* PersistTasks with a stale closure: what is written is the list of the
\* render before
PersistTasksStale(next, text, f) ==
  \E fails \in BOOLEAN :
    IF fails
      THEN Crash("QuotaExceededError")
      ELSE /\ Rendered(next, text, f)
           /\ lastWrite' = "ok"
           /\ localStorage' = setItem(localStorage, "tasks",
                                      IF IsArray(tasks) THEN JSONstringify(tasks) ELSE <<>>)

\* the effect that persists tasks: localStorage.setItem may raise, and nothing
\* catches what it raises
PersistTasks(next, text, f) ==
  \E fails \in BOOLEAN :
    IF fails
      THEN Crash("QuotaExceededError")
      ELSE /\ Rendered(next, text, f)
           /\ lastWrite' = "ok"
           /\ localStorage' = setItem(localStorage, "tasks", JSONstringify(next))

\* a render with the new reducer state and, once it is committed, the effects
\* that depend on it; no effect runs where window is undefined
CommitTasks(next, text, f) ==
  IF RenderThrows(next, f) THEN Crash("TypeError")
  ELSE IF ~window THEN Rendered(next, text, f) /\ UNCHANGED <<localStorage, lastWrite>>
  ELSE PersistTasks(next, text, f)

\* the page is opened or reloaded: a new session over the same localStorage
MountTodoList ==
  /\ component = "TodoList"
  /\ console' = {}
  /\ CommitTasks(LoadTasks(window, localStorage), <<>>, "all")
  /\ UNCHANGED <<window, component, storedValue, issued, call>>

Interactive == component = "TodoList" /\ phase = "mounted" /\ window

\* dispatch(action): the reducer runs, the component renders, the effect runs
Dispatch(action, uuid, text) ==
  IF ReducerThrows(tasks, action)
    THEN Crash("TypeError")
    ELSE CommitTasks(tasksReducer(tasks, action, uuid), text, filter)

handleInputChange(v) ==
  /\ Interactive
  /\ newTaskText' = v
  /\ UNCHANGED <<window, component, phase, localStorage, tasks, filter, storedValue,
                 console, uncaught, issued, lastWrite, call>>

handleAddTask ==
  /\ Interactive
  /\ LET text == Trim(newTaskText) IN
     IF text = <<>>
       THEN UNCHANGED vars
       ELSE \E uuid \in UUIDs \ issued :
              /\ issued' = issued \cup {uuid}
              /\ Dispatch(AddAction(Str(text)), uuid, <<>>)
              /\ UNCHANGED <<window, component, storedValue, console, call>>

\* the identifiers of the rows on screen; there are none before the first render
VisibleIds ==
  IF Interactive
    THEN {Member(filteredTasks(tasks, filter)[n], ID) : n \in 1..Len(filteredTasks(tasks, filter))}
    ELSE {}

handleToggle(id) ==
  /\ Interactive
  /\ id \in VisibleIds
  /\ Dispatch(ToggleAction(id), <<>>, newTaskText)
  /\ UNCHANGED <<window, component, storedValue, console, issued, call>>

handleDelete(id) ==
  /\ Interactive
  /\ id \in VisibleIds
  /\ Dispatch(DeleteAction(id), <<>>, newTaskText)
  /\ UNCHANGED <<window, component, storedValue, console, issued, call>>

\* ClearCompletedOffered with the test on the length: tasks.length > 0
ClearCompletedOfferedNonEmpty ==
  Interactive /\ Len(tasks.a) > 0

\* the control is rendered only when tasks.some((t) => t.completed)
ClearCompletedOffered ==
  Interactive /\ \E n \in 1..Len(tasks.a) : Truthy(Member(tasks.a[n], COMPLETED))

handleClearCompleted ==
  /\ Interactive
  /\ ClearCompletedOffered
  /\ Dispatch(ClearCompletedAction, <<>>, newTaskText)
  /\ UNCHANGED <<window, component, storedValue, console, issued, call>>

setFilter(f) ==
  /\ Interactive
  /\ IF RenderThrows(tasks, f)
       THEN Crash("TypeError")
       ELSE filter' = f /\ UNCHANGED <<phase, uncaught, localStorage, tasks, newTaskText, lastWrite>>
  /\ UNCHANGED <<window, component, storedValue, console, issued, call>>

(***************************************************************************)
(* useLocalStorage                                                         *)
(***************************************************************************)
\* the initialiser handed to useState: the value and what it logs
LoadStoredValue(isClient, ls, key, initialValue) ==
  IF ~isClient THEN [v |-> initialValue, log |-> {}]
  ELSE LET item == getItem(ls, key) IN
       IF Truthy(item)
         THEN LET r == JSONparse(item.s) IN
              IF r.ok THEN [v |-> r.v, log |-> {}]
              ELSE [v |-> initialValue, log |-> {ReadError(key)}]
         ELSE [v |-> initialValue, log |-> {}]

\* storedValue instanceof Function ? storedValue(storedValue) : storedValue
valueToStore(val) == IF val.k = "function" THEN val.returns ELSE val

\* the string setItem keeps for JSON.stringify(v): JSON.stringify gives
\* undefined for undefined and for a function, and setItem turns what it is
\* given into a string
StringToStore(v) == IF Serializable(v) THEN JSONstringify(v) ELSE <<"undefined">>

\* StoreValue with the effect skipping its first run (if (firstRender.current)
\* return): nothing is written when the component mounts
StoreValueSkipsFirstRun(val, logged) ==
  IF ~window \/ phase # "mounted"
    THEN console' = logged /\ UNCHANGED <<localStorage, lastWrite>>
  ELSE \E fails \in BOOLEAN :
         IF fails
           THEN /\ console' = logged \cup {WriteError(HookKey)}
                /\ lastWrite' = "failed"
                /\ UNCHANGED localStorage
           ELSE /\ localStorage' = setItem(localStorage, HookKey, StringToStore(valueToStore(val)))
                /\ lastWrite' = "ok"
                /\ console' = logged

\* the effect that writes storedValue back; logged is the console before it
StoreValue(val, logged) ==
  IF ~window THEN console' = logged /\ UNCHANGED <<localStorage, lastWrite>>
  ELSE \E fails \in BOOLEAN :
         IF fails
           THEN /\ console' = logged \cup {WriteError(HookKey)}
                /\ lastWrite' = "failed"
                /\ UNCHANGED localStorage
           ELSE /\ localStorage' = setItem(localStorage, HookKey, StringToStore(valueToStore(val)))
                /\ lastWrite' = "ok"
                /\ console' = logged

\* a component that calls useLocalStorage("tasks", []) is mounted or reloaded
MountHook ==
  /\ component = "useLocalStorage"
  /\ LET loaded == LoadStoredValue(window, localStorage, HookKey, HookInitialValue) IN
       /\ storedValue' = loaded.v
       /\ StoreValue(loaded.v, loaded.log)
  /\ phase' = "mounted"
  /\ UNCHANGED <<window, component, tasks, newTaskText, filter, uncaught, issued, call>>

HookInteractive == component = "useLocalStorage" /\ phase = "mounted" /\ window

\* setValue(value)
setStoredValue(val) ==
  /\ HookInteractive
  /\ storedValue' = val
  /\ StoreValue(val, console)
  /\ UNCHANGED <<window, component, phase, tasks, newTaskText, filter, uncaught, issued, call>>

\* setValue((old) => new)
updateStoredValue(u) ==
  /\ HookInteractive
  /\ storedValue' = ApplyUpdater(u, storedValue)
  /\ StoreValue(ApplyUpdater(u, storedValue), console)
  /\ UNCHANGED <<window, component, phase, tasks, newTaskText, filter, uncaught, issued, call>>

Next ==
  \/ MountTodoList
  \/ \E v \in Inputs : handleInputChange(v)
  \/ handleAddTask
  \/ \E id \in VisibleIds : handleToggle(id)
  \/ \E id \in VisibleIds : handleDelete(id)
  \/ handleClearCompleted
  \/ \E f \in Filters : setFilter(f)
  \/ MountHook
  \/ \E val \in HookValues : setStoredValue(val)
  \/ \E u \in HookUpdaters : updateStoredValue(u)

Spec == Init /\ [][Next]_vars

(***************************************************************************)
(* tasksReducer on its own: every list of at most MaxTasks tasks and every *)
(* action, with identifiers and texts from a small pool.                   *)
(***************************************************************************)
MaxTasks == 2

PoolIds == {<<"x">>, <<"y">>, UUID(1)}
PoolTexts == {<<"a">>, <<"b", QUOTE>>}
TaskPool == {Task(Str(i), Str(t), Bool(c)) : i \in PoolIds, t \in PoolTexts, c \in BOOLEAN}
TaskLists == UNION {[1..n -> TaskPool] : n \in 0..MaxTasks}

\* an identifier that no task of the pool has
AbsentId == <<"w">>
ActionIds == {Str(i) : i \in PoolIds \cup {AbsentId}}
Actions ==
  {AddAction(Str(t)) : t \in PoolTexts}
    \cup {ToggleAction(i) : i \in ActionIds}
    \cup {DeleteAction(i) : i \in ActionIds}
    \cup {ClearCompletedAction, [type |-> "RESET"]}

\* the identifiers of the tasks of a list
IdsOf(ts) == {Member(ts.a[n], ID) : n \in 1..Len(ts.a)}

InitReducer ==
  /\ window = TRUE
  /\ component = "TodoList"
  /\ phase = "unmounted"
  /\ localStorage = [k \in {OtherKey} |-> OtherItem]
  /\ tasks = Undefined
  /\ newTaskText = <<>>
  /\ filter = "all"
  /\ storedValue = Undefined
  /\ console = {}
  /\ uncaught = "none"
  /\ lastWrite = "none"
  /\ \E ts \in TaskLists, action \in Actions :
       /\ call = Pending(Arr(ts), action)
       \* identifiers already in use are not handed out again
       /\ issued = {u \in UUIDs : Str(u) \in IdsOf(Arr(ts))}

callReducer ==
  /\ call.type = "pending"
  /\ \E uuid \in (IF call.action.type = "ADD" THEN UUIDs \ issued ELSE {<<>>}) :
       /\ call' = Returned(call.state, call.action,
                           tasksReducer(call.state, call.action, uuid))
       /\ issued' = IF call.action.type = "ADD" THEN issued \cup {uuid} ELSE issued
  /\ UNCHANGED <<window, component, phase, localStorage, tasks, newTaskText, filter,
                 storedValue, console, uncaught, lastWrite>>

NextReducer == callReducer

SpecReducer == InitReducer /\ [][NextReducer]_vars

(***************************************************************************)
(* Two copies of the Task Store: two useReducer(tasksReducer, ...) stores   *)
(* that start from one list and are dispatched the same actions; each call  *)
(* of the reducer draws its own crypto.randomUUID().                        *)
(***************************************************************************)
Copies(first, second) == [type |-> "copies", first |-> first, second |-> second]

InitCopies ==
  /\ window = TRUE
  /\ component = "TodoList"
  /\ phase = "unmounted"
  /\ localStorage = [k \in {OtherKey} |-> OtherItem]
  /\ tasks = Undefined
  /\ newTaskText = <<>>
  /\ filter = "all"
  /\ storedValue = Undefined
  /\ console = {}
  /\ uncaught = "none"
  /\ lastWrite = "none"
  /\ \E ts \in TaskLists :
       /\ call = Copies(Arr(ts), Arr(ts))
       /\ issued = {u \in UUIDs : Str(u) \in IdsOf(Arr(ts))}

\* one action, dispatched to both stores
dispatchBoth ==
  /\ call.type = "copies"
  /\ \E action \in Actions :
       \E uuid1, uuid2 \in (IF action.type = "ADD" THEN UUIDs \ issued ELSE {<<>>}) :
         \* randomUUID does not return an identifier twice
         /\ action.type = "ADD" => uuid1 # uuid2
         /\ call' = Copies(tasksReducer(call.first, action, uuid1),
                           tasksReducer(call.second, action, uuid2))
         /\ issued' = IF action.type = "ADD" THEN issued \cup {uuid1, uuid2} ELSE issued
  /\ UNCHANGED <<window, component, phase, localStorage, tasks, newTaskText, filter,
                 storedValue, console, uncaught, lastWrite>>

NextCopies == dispatchBoth

SpecCopies == InitCopies /\ [][NextCopies]_vars

(***************************************************************************)
(* Properties                                                              *)
(***************************************************************************)

\* C1: ADD with a text that is not empty after trimming returns a list one
\* longer than the state, whose first elements are the state in order and
\* whose last element is not completed, has the text of the action and has
\* an id that no task of the state has.
C1_AddAppendsFreshTask ==
  (call.type = "returned" /\ call.action.type = "ADD" /\ Trim(call.action.text.s) # <<>>) =>
    LET L == call.state.a
        R == call.result.a
    IN /\ Len(R) = Len(L) + 1
       /\ SubSeq(R, 1, Len(L)) = L
       /\ Member(R[Len(R)], COMPLETED) = Bool(FALSE)
       /\ Member(R[Len(R)], TEXT) = call.action.text
       /\ \A n \in 1..Len(L) : Member(L[n], ID) # Member(R[Len(R)], ID)

\* an ADD has returned for a list that already held a task with a generated id
C1_Witness ==
  /\ call.type = "returned"
  /\ call.action.type = "ADD"
  /\ Len(call.state.a) >= 2
  /\ Str(UUID(1)) \in IdsOf(call.state)

\* C3: a TOGGLE with the id of a task of the list leaves a list of the same
\* length in which every task with that id has completed negated and its id
\* and text as before, and every other task is as before, at the same position.
C3_ToggleNegatesOnlyMatching ==
  [][ \A id \in VisibleIds :
        (phase' = "mounted" /\ newTaskText' = newTaskText /\ filter' = filter
           /\ issued' = issued /\ handleToggle(id)) =>
          LET L == tasks.a
              R == tasks'.a
          IN /\ Len(R) = Len(L)
             /\ \A n \in 1..Len(L) :
                  IF Member(L[n], ID) = id
                    THEN /\ Member(R[n], ID) = Member(L[n], ID)
                         /\ Member(R[n], TEXT) = Member(L[n], TEXT)
                         /\ Member(R[n], COMPLETED) = Bool(~Truthy(Member(L[n], COMPLETED)))
                    ELSE R[n] = L[n] ]_vars

\* a task that ADD created, hence not completed, is completed after a click on
\* it, in a list that holds tasks seeded from storage too
C3_Witness ==
  /\ Interactive
  /\ Len(tasks.a) >= 3
  /\ \E n \in 1..Len(tasks.a) :
       /\ Member(tasks.a[n], ID) \in {Str(u) : u \in UUIDs}
       /\ Member(tasks.a[n], COMPLETED) = Bool(TRUE)

\* C4: CLEAR_COMPLETED returns exactly the tasks of the state that are not
\* completed, each unchanged, in their original relative order.
C4_ClearCompletedKeepsActive ==
  (call.type = "returned" /\ call.action.type = "CLEAR_COMPLETED") =>
    LET L == call.state.a
        R == call.result.a
        Kept == {n \in 1..Len(L) : Member(L[n], COMPLETED) = Bool(FALSE)}
    IN /\ Len(R) = Cardinality(Kept)
       /\ \A n \in Kept : R[Cardinality({m \in Kept : m <= n})] = L[n]
       /\ \A k \in 1..Len(R) : Member(R[k], COMPLETED) = Bool(FALSE)

\* CLEAR_COMPLETED has returned for a list with a completed task before an active one
C4_Witness ==
  /\ call.type = "returned"
  /\ call.action.type = "CLEAR_COMPLETED"
  /\ \E m, n \in 1..Len(call.state.a) :
       /\ m < n
       /\ Member(call.state.a[m], COMPLETED) = Bool(TRUE)
       /\ Member(call.state.a[n], COMPLETED) = Bool(FALSE)

\* C2: a DELETE leaves a list without the id; one shorter than before, with
\* exactly one element taken out and the others in order, when the id was in
\* the list, and the list as it was when it was not.
C2_DeleteRemovesExactlyOne ==
  [][ \A id \in VisibleIds :
        (handleDelete(id) /\ phase' = "mounted") =>
          LET L == tasks.a
              R == tasks'.a
          IN /\ id \notin IdsOf(tasks')
             /\ IF id \in IdsOf(tasks)
                  THEN /\ Len(R) = Len(L) - 1
                       /\ \E n \in 1..Len(L) :
                            /\ Member(L[n], ID) = id
                            /\ R = SubSeq(L, 1, n - 1) \o SubSeq(L, n + 1, Len(L))
                  ELSE R = L ]_vars

\* C5: no two tasks of the list share an id.
C5_UniqueIds ==
  (component = "TodoList" /\ phase = "mounted") =>
    \A m, n \in 1..Len(tasks.a) :
      m # n => Member(tasks.a[m], ID) # Member(tasks.a[n], ID)

\* a list of records { id: string, text: string, completed: boolean }
IsTaskList(v) ==
  /\ IsArray(v)
  /\ \A n \in 1..Len(v.a) :
       /\ IsObject(v.a[n])
       /\ Member(v.a[n], ID).k = "string"
       /\ Member(v.a[n], TEXT).k = "string"
       /\ Member(v.a[n], COMPLETED).k = "boolean"

\* C6: whatever is stored under the key at startup, the value read from it
\* makes no render and no transition raise (a TypeError that reaches the user),
\* and what the store holds is a list of Task records.
C6_NoErrorAndValidList ==
  /\ uncaught # "TypeError"
  /\ (component = "TodoList" /\ phase # "unmounted") => IsTaskList(tasks)

\* C7: a session that starts over an item that does not parse holds the
\* initial value, has logged the failure to read, and has raised nothing.
C7_ParseFailureYieldsInitialAndLogs ==
  [][ ( /\ MountTodoList \/ MountHook
        /\ window
        /\ "tasks" \in DOMAIN localStorage
        /\ localStorage["tasks"] # <<>>
        /\ ~JSONparse(localStorage["tasks"]).ok
        /\ phase' = "mounted" )
      => /\ (IF component = "TodoList" THEN tasks' ELSE storedValue') = Arr(<<>>)
         /\ ReadError("tasks") \in console'
         /\ uncaught' = "none" ]_vars

\* C8: when a write to localStorage fails, the failure is logged and nothing is
\* raised: the component stays mounted with the value it had committed.
C8_WriteFailureLoggedAndSwallowed ==
  lastWrite = "failed" =>
    /\ uncaught = "none"
    /\ phase = "mounted"
    /\ WriteError("tasks") \in console
    /\ IsArray(IF component = "TodoList" THEN tasks ELSE storedValue)

\* C9: in a browser every commit of the list has been followed by a write;
\* when that write did not fail, the string under the key is the
\* serialisation of the list now in memory; no other key is touched.
C9_StoredIsLatestCommitted ==
  (window /\ phase = "mounted") =>
    /\ lastWrite \in {"ok", "failed"}
    /\ lastWrite = "ok" =>
         /\ "tasks" \in DOMAIN localStorage
         /\ component = "TodoList" => localStorage["tasks"] = JSONstringify(tasks)
         /\ (component = "useLocalStorage" /\ storedValue.k # "function") =>
              localStorage["tasks"] = JSONstringify(storedValue)
    /\ DOMAIN localStorage \subseteq {"tasks", OtherKey}
    /\ localStorage[OtherKey] = OtherItem

\* the to-do list has committed an ADD to a list that was not empty, and the
\* write went through
C9_Witness ==
  /\ Interactive
  /\ lastWrite = "ok"
  /\ Len(tasks.a) >= 2
  /\ Member(tasks.a[Len(tasks.a)], ID) \in {Str(u) : u \in UUIDs}

\* C10: once a list is persisted, loading from the same key (what a fresh
\* session does) gives an equal list: the same length and the same tasks at
\* the same positions; nothing is logged.
C10_LoadReproducesPersisted ==
  (window /\ phase = "mounted" /\ lastWrite = "ok") =>
    IF component = "TodoList"
      THEN LoadTasks(window, localStorage) = tasks
      ELSE IsArray(storedValue) =>
             LoadStoredValue(window, localStorage, HookKey, HookInitialValue)
               = [v |-> storedValue, log |-> {}]

\* a list is persisted that holds a task the user added and a task whose text
\* needs escaping
C10_Witness ==
  /\ Interactive
  /\ lastWrite = "ok"
  /\ \E m, n \in 1..Len(tasks.a) :
       /\ Member(tasks.a[m], ID) \in {Str(u) : u \in UUIDs}
       /\ Member(tasks.a[n], TEXT) = Str(<<"b", QUOTE>>)

\* C11: for a list of tasks and an id that is in it, a second TOGGLE with the
\* same id, applied to what the first returned, gives back the list the first
\* started from: the same tasks, in the same order, with the same flags, the
\* tasks with another id included.
C11_ToggleTwiceRestores ==
  (call.type = "returned" /\ call.action.type = "TOGGLE"
     /\ call.action.id \in IdsOf(call.state)) =>
    /\ call.result # call.state
    /\ tasksReducer(call.result, call.action, <<>>) = call.state

\* TOGGLE has returned for a list of two tasks of which one has the id
C11_Witness ==
  /\ call.type = "returned"
  /\ call.action.type = "TOGGLE"
  /\ Len(call.state.a) = 2
  /\ Member(call.state.a[1], ID) = call.action.id
  /\ Member(call.state.a[2], ID) # call.action.id

\* C16: a TOGGLE with an id that no task of the list has returns a list equal
\* to the one it was given, and raises nothing.
C16_ToggleAbsentIdIsNoOp ==
  (call.action.type = "TOGGLE" /\ call.action.id \notin IdsOf(call.state)) =>
    /\ ~ReducerThrows(call.state, call.action)
    /\ call.type = "returned" => call.result = call.state

\* TOGGLE has returned for a list of two tasks, neither with the id
C16_Witness ==
  /\ call.type = "returned"
  /\ call.action.type = "TOGGLE"
  /\ Len(call.state.a) = 2
  /\ call.action.id \notin IdsOf(call.state)

\* C12: where there is no window (a render outside a browser), the session
\* holds the initial value, has reported that the storage is unavailable on the
\* console, has raised nothing, and has attempted no write.
C12_UnavailableStorageFallsBackAndLogs ==
  (~window /\ phase = "mounted") =>
    /\ (IF component = "TodoList" THEN tasks ELSE storedValue) = HookInitialValue
    /\ uncaught = "none"
    /\ lastWrite = "none"
    /\ console # {}

\* C13: two copies of the Task Store that started from the same list and were
\* dispatched the same actions hold equal lists after every step, the ids of
\* the tasks that ADD created included.
C13_CopiesHoldEqualLists ==
  call.type = "copies" => call.first = call.second

\* R is L with some elements left out: what R holds, L holds in the same
\* order (a task is known by its id and its text; its flag may differ)
RECURSIVE Embeds(_, _)
Embeds(R, L) ==
  IF R = <<>> THEN TRUE
  ELSE IF L = <<>> THEN FALSE
  ELSE IF /\ Member(Head(R), ID) = Member(Head(L), ID)
          /\ Member(Head(R), TEXT) = Member(Head(L), TEXT)
         THEN Embeds(Tail(R), Tail(L))
         ELSE Embeds(R, Tail(L))

\* C14: every step of the to-do list keeps the order of the list: a step that
\* adds a task leaves the list as it was with the new task after it, and after
\* any other step the list holds tasks it held before, in the order they had.
C14_OrderIsInsertionOrder ==
  [][ (Interactive /\ phase' = "mounted") =>
        LET L == tasks.a
            R == tasks'.a
        IN IF Len(R) > Len(L)
             THEN /\ SubSeq(R, 1, Len(L)) = L
                  /\ Len(R) = Len(L) + 1
                  /\ Member(R[Len(R)], ID) \in {Str(u) : u \in issued' \ issued}
             ELSE Embeds(R, L) ]_vars

\* two tasks were added after the seeded ones and one of the two was taken
\* out again: the other is last, after what is left of the seeded tasks
C14_Witness ==
  /\ Interactive
  /\ Len(tasks.a) >= 2
  /\ Cardinality(issued) >= 2
  /\ Member(tasks.a[Len(tasks.a)], ID) \in {Str(u) : u \in issued}
  /\ \A n \in 1..(Len(tasks.a) - 1) : Member(tasks.a[n], ID) \notin {Str(u) : u \in issued}

\* C15: no task of the list of the to-do list has the empty string as its
\* text.
C15_EveryTaskHasText ==
  (component = "TodoList" /\ phase = "mounted") =>
    \A n \in 1..Len(tasks.a) :
      Member(tasks.a[n], TEXT).k = "string" => Member(tasks.a[n], TEXT).s # <<>>

\* C17: the view of a list of tasks is the tasks the filter selects, in the
\* order of the list: all of them, those with completed = false, or those with
\* completed = true; storage holds the key of the list and nothing of the
\* filter; and a step that changes the filter changes neither the list nor
\* what is stored.
C17_FilterIsViewOnly ==
  /\ []( (Interactive /\ IsTaskList(tasks)) =>
           LET L == tasks.a
               V == filteredTasks(tasks, filter)
               Selected == {n \in 1..Len(L) :
                              \/ filter = "all"
                              \/ filter = "active" /\ Member(L[n], COMPLETED) = Bool(FALSE)
                              \/ filter = "completed" /\ Member(L[n], COMPLETED) = Bool(TRUE)}
           IN /\ Len(V) = Cardinality(Selected)
              /\ \A n \in Selected : V[Cardinality({m \in Selected : m <= n})] = L[n]
              /\ DOMAIN localStorage \subseteq {"tasks", OtherKey} )
  /\ [][ (Interactive /\ phase' = "mounted" /\ filter' # filter) =>
          /\ tasks' = tasks
          /\ localStorage' = localStorage
          /\ lastWrite' = lastWrite ]_vars

\* the filter is "completed" over a list that has an active task between two
\* completed ones
C17_Witness ==
  /\ Interactive
  /\ IsTaskList(tasks)
  /\ filter = "completed"
  /\ \E l, m, n \in 1..Len(tasks.a) :
       /\ l < m /\ m < n
       /\ Member(tasks.a[l], COMPLETED) = Bool(TRUE)
       /\ Member(tasks.a[m], COMPLETED) = Bool(FALSE)
       /\ Member(tasks.a[n], COMPLETED) = Bool(TRUE)

\* C18: what useLocalStorage has written under the key is the serialisation
\* of the value it holds, as it is, also when that value is a function.
C18_StoredIsLiteralValue ==
  (HookInteractive /\ lastWrite = "ok") =>
    localStorage[HookKey] = StringToStore(storedValue)

\* what the key holds after a startup over storage ls whose write went
\* through: the serialisation of the empty list where the key was absent or
\* held a string that does not parse, the serialisation of the list again
\* where it held a list; the other key is as it was
OverwrittenAtStartup(ls, after) ==
  LET r == IF "tasks" \in DOMAIN ls THEN JSONparse(ls["tasks"]) ELSE SyntaxError
  IN /\ "tasks" \in DOMAIN after
     /\ ~r.ok => after["tasks"] = <<"[", "]">>
     /\ (r.ok /\ IsArray(r.v)) => after["tasks"] = JSONstringify(r.v)
     /\ \A k \in DOMAIN ls \ {"tasks"} : k \in DOMAIN after /\ after[k] = ls[k]

\* a session starts in a browser and is mounted after the step
Startup ==
  /\ window
  /\ phase' = "mounted"
  /\ newTaskText' = <<>>
  /\ filter' = "all"
  /\ issued' = issued
  /\ MountTodoList \/ MountHook

\* C19 as stated: after every startup in a browser the key holds the
\* serialisation of the list that was loaded.
C19_StartupWriteOverwrites ==
  [][ Startup => OverwrittenAtStartup(localStorage, localStorage') ]_vars

\* C19, amended: every startup in a browser attempts the write; when the write
\* goes through the key holds the serialisation of the list that was loaded,
\* and when it fails storage is as it was and the failure is on the console.
C19_StartupWriteOverwritesUnlessFailed ==
  [][ Startup =>
        /\ lastWrite' \in {"ok", "failed"}
        /\ lastWrite' = "ok" => OverwrittenAtStartup(localStorage, localStorage')
        /\ lastWrite' = "failed" =>
             /\ localStorage' = localStorage
             /\ WriteError("tasks") \in console' ]_vars

\* a session has started over a string that does not parse, which is on the
\* console, and the key holds the serialisation of the empty list
C19_Witness ==
  /\ window
  /\ phase = "mounted"
  /\ lastWrite = "ok"
  /\ ReadError("tasks") \in console
  /\ storedValue = Arr(<<>>)
  /\ localStorage["tasks"] = <<"[", "]">>

\* C20: the Clear Completed control is on screen exactly when a task of the
\* list has completed = true; a click on it leaves a list that is shorter and
\* does not offer the control; and the control comes back only by a click
\* that toggles a task.
C20_ClearCompletedOfferedWhenUseful ==
  /\ []( (Interactive /\ IsTaskList(tasks)) =>
           (ClearCompletedOffered <=>
              \E n \in 1..Len(tasks.a) : Member(tasks.a[n], COMPLETED) = Bool(TRUE)) )
  /\ [][ (handleClearCompleted /\ phase' = "mounted") =>
          /\ Len(tasks'.a) < Len(tasks.a)
          /\ ~ClearCompletedOffered' ]_vars
  /\ [][ (Interactive /\ ~ClearCompletedOffered /\ ClearCompletedOffered') =>
          \E id \in VisibleIds : handleToggle(id) ]_vars

\* tasks were added, one was completed, and there is no completed task now:
\* the control is not on screen over a list that is not empty
C20_Witness ==
  /\ Interactive
  /\ ~ClearCompletedOffered
  /\ Len(tasks.a) >= 2
  /\ Cardinality(issued) >= 2
  /\ Cardinality({u \in issued : Str(u) \in IdsOf(tasks)}) = 1

====
